---- MODULE Spec2Model ----
(***************************************************************************)
(* Model of the entry parser of src/EDA.py ("parse book.py" part):         *)
(* format_output, refactor_src_info, process_entry and process_Wood.       *)
(*                                                                         *)
(* A Python str is modelled as a sequence of one-character strings, so     *)
(* that the regular expressions and the str methods of the source can be   *)
(* computed character by character.  None is the one-element sequence      *)
(* <<"<None>">>, which is no text (every element of a text is a single     *)
(* character).                                                             *)
(***************************************************************************)
EXTENDS Integers, Sequences, FiniteSets, TLC

VARIABLES
    file,      \* process_Wood: the lines of the opened file
    pos,       \* process_Wood: number of lines the for loop has consumed
    lst,       \* process_Wood: lines of the entry being collected
    cleaned,   \* process_Wood: the list of records
    pc,        \* process_Wood: "loop", "last", "done" or "aborted"
    printed,   \* process_Wood: number of caught errors that were printed
    s,         \* process_entry: the argument of the call
    res,       \* process_entry: what the call returned or raised
    locals,    \* process_entry: its local variables after line 173
    out,       \* format_output: the tuple it returned
    phase      \* position of the single-call specifications

vars == <<file, pos, lst, cleaned, pc, printed, s, res, locals, out, phase>>

None == <<"<None>">>

----------------------------------------------------------------------------
(* Character classes and str methods                                       *)

NonWordChars == {" ", "\n", ".", ",", "'", "=", "-", "[", "]", ":", "(", ")", "?"}
DigitChars == {"0", "1", "2", "3", "4", "5", "6", "7", "8", "9"}

\* \w of Python's re: every character of the model that is no punctuation
IsWord(c) == c \notin NonWordChars

\* what str.strip / str.rstrip remove
IsSpace(c) == c \in {" ", "\n"}

\* \b at the gap before position i (1-based) of t
Boundary(t, i) ==
    LET before == i > 1 /\ i - 1 <= Len(t) /\ IsWord(t[i - 1])
        after == i >= 1 /\ i <= Len(t) /\ IsWord(t[i])
    IN before # after

\* t[i..j] (1-based, both ends included), clipped to t as a Python slice is
Slice(t, i, j) ==
    LET lo == IF i < 1 THEN 1 ELSE i
        hi == IF j > Len(t) THEN Len(t) ELSE j
    IN IF hi < lo THEN <<>> ELSE SubSeq(t, lo, hi)

\* the literal p occurs in t at position i
MatchAt(t, i, p) ==
    /\ i >= 1
    /\ i + Len(p) - 1 <= Len(t)
    /\ \A k \in 1..Len(p) : t[i + k - 1] = p[k]

\* str.rstrip()
rstrip(t) ==
    LET keep == {i \in 1..Len(t) : ~IsSpace(t[i])}
    IN IF keep = {} THEN <<>>
       ELSE Slice(t, 1, CHOOSE i \in keep : \A k \in keep : k <= i)

\* str.strip()
strip(t) ==
    LET keep == {i \in 1..Len(t) : ~IsSpace(t[i])}
        r == rstrip(t)
    IN IF keep = {} THEN <<>>
       ELSE Slice(r, CHOOSE i \in keep : \A k \in keep : i <= k, Len(r))

RECURSIVE ReplaceFrom(_, _, _, _)
ReplaceFrom(t, p, r, i) ==
    IF i > Len(t) THEN <<>>
    ELSE IF MatchAt(t, i, p) THEN r \o ReplaceFrom(t, p, r, i + Len(p))
    ELSE <<t[i]>> \o ReplaceFrom(t, p, r, i + 1)

\* str.replace(p, r) for a non-empty p: every occurrence, left to right
Replace(t, p, r) == IF p = <<>> THEN t ELSE ReplaceFrom(t, p, r, 1)

RECURSIVE SplitFrom(_, _, _)
SplitFrom(t, c, i) ==
    LET hits == {j \in i..Len(t) : t[j] = c}
        j == CHOOSE h \in hits : \A k \in hits : h <= k
    IN IF hits = {} THEN <<Slice(t, i, Len(t))>>
       ELSE <<Slice(t, i, j - 1)>> \o SplitFrom(t, c, j + 1)

\* str.split(c) for a one-character separator
Split(t, c) == SplitFrom(t, c, 1)

RECURSIVE Join(_, _)
\* sep.join(parts)
Join(parts, sep) ==
    IF parts = <<>> THEN <<>>
    ELSE IF Len(parts) = 1 THEN parts[1]
    ELSE parts[1] \o sep \o Join(Tail(parts), sep)

RECURSIVE Filter(_)
\* [x for x in parts if x]
Filter(parts) ==
    IF parts = <<>> THEN <<>>
    ELSE IF parts[1] = <<>> THEN Filter(Tail(parts))
    ELSE <<parts[1]>> \o Filter(Tail(parts))

\* parts[::2]
EvenIndexed(parts) ==
    [k \in 1..((Len(parts) + 1) \div 2) |-> parts[2 * k - 1]]

----------------------------------------------------------------------------
(* process_entry, lines 113-125: the substitutions                         *)

\* re.sub("\d+", "", t)
SubDigits(t) == SelectSeq(t, LAMBDA c : c \notin DigitChars)

\* re.sub("\(\?\)", "", t)
SubUncertain(t) == Replace(t, <<"(", "?", ")">>, <<>>)

\* re.sub("\n", " ", t)
SubNewline(t) == [i \in 1..Len(t) |-> IF t[i] = "\n" THEN " " ELSE t[i]]

RECURSIVE SubSpacesFrom(_, _)
SubSpacesFrom(t, i) ==
    IF i > Len(t) THEN <<>>
    ELSE IF t[i] = " " /\ i > 1 /\ t[i - 1] = " " THEN SubSpacesFrom(t, i + 1)
    ELSE <<t[i]>> \o SubSpacesFrom(t, i + 1)

\* re.sub(" {2,}", " ", t)
SubSpaces(t) == SubSpacesFrom(t, 1)

\* re.sub("_ _", " ", t)
SubItalics(t) == Replace(t, <<"_", " ", "_">>, <<" ">>)

\* end of the match of "= \(.*?\)." that starts at i, 0 when there is none
GlossEnd(t, i) ==
    LET ends == {p \in (i + 3)..(Len(t) - 1) :
                    /\ t[p] = ")"
                    /\ t[p + 1] # "\n"
                    /\ \A k \in (i + 3)..(p - 1) : t[k] # "\n"}
    IN IF ~MatchAt(t, i, <<"=", " ", "(">>) \/ ends = {} THEN 0
       ELSE 1 + CHOOSE p \in ends : \A k \in ends : p <= k

RECURSIVE SubGlossFrom(_, _)
SubGlossFrom(t, i) ==
    IF i > Len(t) THEN <<>>
    ELSE IF GlossEnd(t, i) # 0 THEN <<"=">> \o SubGlossFrom(t, GlossEnd(t, i) + 1)
    ELSE <<t[i]>> \o SubGlossFrom(t, i + 1)

\* re.sub("= \(.*?\).", "=", t)
SubGloss(t) == SubGlossFrom(t, 1)

\* end of the match of "\(_lit._ .*?\)" that starts at i, 0 when there is none
LitEnd(t, i) ==
    LET ends == {p \in (i + 8)..Len(t) :
                    /\ t[p] = ")"
                    /\ \A k \in (i + 8)..(p - 1) : t[k] # "\n"}
    IN IF \/ ~MatchAt(t, i, <<"(", "_", "l", "i", "t">>)
          \/ ~(i + 7 <= Len(t))
          \/ t[i + 5] = "\n"
          \/ ~MatchAt(t, i + 6, <<"_", " ">>)
          \/ ends = {} THEN 0
       ELSE CHOOSE p \in ends : \A k \in ends : p <= k

RECURSIVE SubLitFrom(_, _)
SubLitFrom(t, i) ==
    IF i > Len(t) THEN <<>>
    ELSE IF LitEnd(t, i) # 0 THEN SubLitFrom(t, LitEnd(t, i) + 1)
    ELSE <<t[i]>> \o SubLitFrom(t, i + 1)

\* re.sub("\(_lit._ .*?\)", "", t)
SubLit(t) == SubLitFrom(t, 1)

\* the loop over substitutions, in the order of the list
substitutions(t) ==
    SubLit(SubGloss(SubItalics(SubSpaces(SubNewline(SubUncertain(SubDigits(t)))))))

----------------------------------------------------------------------------
(* The reference tables of custom_data, as functions from texts            *)

Shakespeare == <<"S", "h", "a", "k", "e", "s", "p", "e", "a", "r", "e">>

shakespeare_aliases == {<<"H", "a", "m">>, <<"M", "a", "c", "b">>}

auth_lang_map ==
    (<<"J", "o", "h", "n", "s", "o", "n">> :> "English") @@
    (<<"H", "o", "r">> :> "Latin") @@
    (<<"F", "r", ".", " ", "B", "a", "c", "o", "n">> :> "English") @@
    (<<"L", ".", " ", "B", "a", "c", "o", "n">> :> "English") @@
    (Shakespeare :> "English")

auth_abbrev_map ==
    (Shakespeare :> <<"S", "h">>) @@
    (<<"F", "r", ".", " ", "B", "a", "c", "o", "n">> :> <<"B", "a", "c", "o", "n">>)

origin_abbrev_map ==
    (<<"F", "r">> :> "French") @@
    (<<"G", "e", "r">> :> "German") @@
    (<<"G", "r">> :> "Greek")

----------------------------------------------------------------------------
(* refactor_src_info, lines 104-109                                        *)

\* length of the match at i of \bw.\b, else of \bw\b, else 0
AbbrevLen(t, i, w) ==
    IF ~(Boundary(t, i) /\ MatchAt(t, i, w)) THEN 0
    ELSE IF /\ i + Len(w) <= Len(t)
            /\ t[i + Len(w)] # "\n"
            /\ Boundary(t, i + Len(w) + 1) THEN Len(w) + 1
    ELSE IF Boundary(t, i + Len(w)) THEN Len(w)
    ELSE 0

\* length of the match at i of "\bPr.\b|\bPr\b|\bProv.\b|\bProv\b"
ProverbLen(t, i) ==
    LET short == AbbrevLen(t, i, <<"P", "r">>)
    IN IF short # 0 THEN short ELSE AbbrevLen(t, i, <<"P", "r", "o", "v">>)

RECURSIVE SubProverbFrom(_, _)
\* re.sub(r"\bPr.\b|\bPr\b|\bProv.\b|\bProv\b", "Proverb", t) from position i
SubProverbFrom(t, i) ==
    LET n == ProverbLen(t, i)
    IN IF i > Len(t) THEN <<>>
       ELSE IF n # 0 THEN <<"P", "r", "o", "v", "e", "r", "b">> \o SubProverbFrom(t, i + n)
       ELSE <<t[i]>> \o SubProverbFrom(t, i + 1)

RECURSIVE SubMaximFrom(_, _)
\* re.sub(r"\bM.\b|\bM\b", "Maxim", t) from position i
SubMaximFrom(t, i) ==
    LET n == AbbrevLen(t, i, <<"M">>)
    IN IF i > Len(t) THEN <<>>
       ELSE IF n # 0 THEN <<"M", "a", "x", "i", "m">> \o SubMaximFrom(t, i + n)
       ELSE <<t[i]>> \o SubMaximFrom(t, i + 1)

refactor_src_info(src_info) ==
    SubMaximFrom(SubProverbFrom(Join(src_info, <<".", " ">>), 1), 1)

----------------------------------------------------------------------------
(* process_entry, lines 127-173: the source information                    *)

\* delete_conditions: the pattern text and whether it stands between \b
delete_conditions == <<
    [word |-> <<",">>, bounded |-> FALSE], [word |-> <<"'">>, bounded |-> FALSE],
    [word |-> <<"t", "o">>, bounded |-> TRUE], [word |-> <<"T", "o">>, bounded |-> TRUE],
    [word |-> <<"a", "t">>, bounded |-> TRUE], [word |-> <<"A", "t">>, bounded |-> TRUE],
    [word |-> <<"o", "n">>, bounded |-> TRUE], [word |-> <<"O", "n">>, bounded |-> TRUE],
    [word |-> <<"b", "y">>, bounded |-> TRUE], [word |-> <<"B", "y">>, bounded |-> TRUE],
    [word |-> <<"i", "n">>, bounded |-> TRUE], [word |-> <<"I", "n">>, bounded |-> TRUE],
    [word |-> <<"s", "a", "i", "d">>, bounded |-> TRUE], [word |-> <<"S", "a", "i", "d">>, bounded |-> TRUE],
    [word |-> <<"u", "p", "o", "n">>, bounded |-> TRUE], [word |-> <<"U", "p", "o", "n">>, bounded |-> TRUE] >>

\* re.sub("(" + word + ").*$", "", t): cut t at the first match of the word
DeleteFrom(t, cond) ==
    LET hits == {i \in 1..Len(t) :
                    /\ MatchAt(t, i, cond.word)
                    /\ cond.bounded =>
                          Boundary(t, i) /\ Boundary(t, i + Len(cond.word))
                    /\ \A k \in i..Len(t) : t[k] # "\n"}
    IN IF hits = {} THEN t
       ELSE Slice(t, 1, (CHOOSE i \in hits : \A k \in hits : i <= k) - 1)

RECURSIVE DeleteAll(_, _)
\* the loop over delete_conditions, from condition n on
DeleteAll(t, n) ==
    IF n > Len(delete_conditions) THEN t
    ELSE DeleteAll(DeleteFrom(t, delete_conditions[n]), n + 1)

RECURSIVE StripAll(_)
StripAll(parts) ==
    IF parts = <<>> THEN <<>> ELSE <<strip(parts[1])>> \o StripAll(Tail(parts))

\* [token.strip() for token in t.replace("_", "").split(".") if token.strip()]
Tokens(t) == Filter(StripAll(Split(Replace(t, <<"_">>, <<>>), ".")))

\* start of the match of "^.*?_.*?_" in the reversed text: the last but one
\* underscore, 0 when the text has fewer than two or a newline follows it
SrcInfoStart(clean) ==
    LET us == {i \in 1..Len(clean) : clean[i] = "_"}
        last == CHOOSE i \in us : \A k \in us : k <= i
        rest == us \ {last}
        start == CHOOSE i \in rest : \A k \in rest : k <= i
    IN IF Cardinality(us) < 2 THEN 0
       ELSE IF \E k \in start..Len(clean) : clean[k] = "\n" THEN 0
       ELSE start

\* lines 129-137: the source information string, trailing text included
src_info_string(clean) == Slice(clean, SrcInfoStart(clean), Len(clean))

\* line 136: the text without its source information
clean_text(clean) ==
    IF SrcInfoStart(clean) = 0 THEN clean
    ELSE rstrip(Replace(clean, src_info_string(clean), <<>>))

\* lines 137-169: the tokens of the source information
src_info_tokens(clean) ==
    Tokens(DeleteAll(rstrip(src_info_string(clean)), 1))

\* lines 129-173: the text without its source information, whether source
\* information was found (src_info is not None), and its tokens
extract_src_info(clean) ==
    LET tokens == src_info_tokens(clean)
    IN IF SrcInfoStart(clean) = 0
       THEN [clean |-> clean, found |-> FALSE, src_info |-> <<>>]
       ELSE [clean |-> clean_text(clean),
             found |-> TRUE,
             src_info |-> IF refactor_src_info(tokens) \in shakespeare_aliases
                          THEN <<Shakespeare>> ELSE tokens]

----------------------------------------------------------------------------
(* process_entry, lines 175-261, and format_output, lines 94-101           *)

\* Python's truth value of a str, a list or None
Truthy(x) == x # None /\ x # <<>>

Returned(original, translation, src_origin, src_info) ==
    [kind |-> "return", original |-> original, translation |-> translation,
     src_origin |-> src_origin, src_info |-> src_info]

\* a failed assert statement
AssertionError ==
    [kind |-> "AssertionError", original |-> None, translation |-> None,
     src_origin |-> "", src_info |-> None]

\* re.findall("\[Greek: (.*?)\]", clean): start and end of the first match,
\* <<0, 0>> when the list is empty
greek_split(clean) ==
    LET open == <<"[", "G", "r", "e", "e", "k", ":", " ">>
        close(i) == {p \in (i + Len(open))..Len(clean) :
                        /\ clean[p] = "]"
                        /\ \A k \in (i + Len(open))..(p - 1) : clean[k] # "\n"}
        starts == {i \in 1..Len(clean) : MatchAt(clean, i, open) /\ close(i) # {}}
        i0 == CHOOSE i \in starts : \A k \in starts : i <= k
    IN IF starts = {} THEN <<0, 0>>
       ELSE <<i0, CHOOSE p \in close(i0) : \A k \in close(i0) : p <= k>>

\* lines 177-191: the Greek form; src_info is the token list, found tells
\* whether it is a list or None
greek_form(clean, found, src_info) ==
    LET m == greek_split(clean)
        original == Slice(clean, m[1] + 8, m[2] - 1)
        rest == Replace(clean, <<"[", "G", "r", "e", "e", "k", ":", " ">> \o original \o <<"]">>, <<>>)
        translation == rstrip(Slice(rest, 3, Len(rest)))
        kept == IF src_info[1] = <<"G", "r">> THEN Tail(src_info) ELSE src_info
    IN IF Slice(rest, 1, 2) # <<"-", "-">> THEN AssertionError
       ELSE Returned(original, translation, "Greek",
                     IF src_info # <<>> THEN refactor_src_info(kept)
                     ELSE IF found THEN <<>> ELSE None)

\* re.sub(", _i.e._.*?$", "", t)
SubIe(t) ==
    LET hits == {i \in 1..(Len(t) - 7) :
                    /\ MatchAt(t, i, <<",", " ", "_", "i">>)
                    /\ t[i + 5] = "e"
                    /\ MatchAt(t, i + 7, <<"_">>)
                    /\ \A k \in (i + 4)..Len(t) : t[k] # "\n"}
    IN IF hits = {} THEN t
       ELSE Slice(t, 1, (CHOOSE i \in hits : \A k \in hits : i <= k) - 1)

\* the even-indexed chunks taken without dropping the empty ones
delimited_original_unfiltered(clean) ==
    rstrip(Join(EvenIndexed(Split(clean, "=")), <<" ">>))

\* lines 198-199 and 207: the original of the delimited form
delimited_original(clean) ==
    rstrip(Join(EvenIndexed(Filter(Split(clean, "="))), <<" ">>))

\* lines 204-208: the translation of the delimited form, before the assert
delimited_translation(clean) ==
    LET parts == Split(clean, "=")
    IN rstrip(SubIe(parts[Len(parts)]))

\* lines 220-228: the source is an author's name
author_matches(src_info) ==
    src_info # <<>> /\ refactor_src_info(src_info) \in DOMAIN auth_lang_map

author_rule(original, translation, src_info) ==
    LET author == refactor_src_info(src_info)
    IN Returned(original, translation, auth_lang_map[author],
                IF author \in DOMAIN auth_abbrev_map
                THEN auth_abbrev_map[author] ELSE author)

\* lines 234-238: law maxims
law_matches(src_info) == src_info # <<>> /\ src_info[1] \in {<<"L">>, <<"L", "a", "w">>}

law_rule(original, translation, src_info) ==
    Returned(original, translation, "Latin",
             refactor_src_info(<<<<"L", "a", "w">>>> \o Tail(src_info)))

\* lines 241-245: the first term is an origin abbreviation
abbrev_matches(src_info) ==
    src_info # <<>> /\ src_info[1] \in DOMAIN origin_abbrev_map

abbrev_rule(original, translation, src_info) ==
    Returned(original, translation, origin_abbrev_map[src_info[1]],
             refactor_src_info(Tail(src_info)))

\* lines 217 and 249-261: no rule matched, or there is no source information
default_rule(original, translation, src_info) ==
    Returned(original, translation,
             IF translation # <<>> THEN "Latin" ELSE "UNK",
             IF src_info # <<>> THEN refactor_src_info(src_info) ELSE None)

\* the law rule tried before the author table
resolve_origin_law_first(original, translation, src_info) ==
    IF law_matches(src_info) THEN law_rule(original, translation, src_info)
    ELSE IF author_matches(src_info) THEN author_rule(original, translation, src_info)
    ELSE IF abbrev_matches(src_info) THEN abbrev_rule(original, translation, src_info)
    ELSE default_rule(original, translation, src_info)

\* the "Latin" default left out
resolve_origin_no_default(original, translation, src_info) ==
    IF author_matches(src_info) THEN author_rule(original, translation, src_info)
    ELSE IF law_matches(src_info) THEN law_rule(original, translation, src_info)
    ELSE IF abbrev_matches(src_info) THEN abbrev_rule(original, translation, src_info)
    ELSE Returned(original, translation, "UNK",
                  IF src_info # <<>> THEN refactor_src_info(src_info) ELSE None)

\* the "Latin" default given without looking at the translation
resolve_origin_always_latin(original, translation, src_info) ==
    IF author_matches(src_info) THEN author_rule(original, translation, src_info)
    ELSE IF law_matches(src_info) THEN law_rule(original, translation, src_info)
    ELSE IF abbrev_matches(src_info) THEN abbrev_rule(original, translation, src_info)
    ELSE Returned(original, translation, "Latin",
                  IF src_info # <<>> THEN refactor_src_info(src_info) ELSE None)

\* lines 216-261: origin and source of the delimited form
resolve_origin(original, translation, src_info) ==
    IF author_matches(src_info) THEN author_rule(original, translation, src_info)
    ELSE IF law_matches(src_info) THEN law_rule(original, translation, src_info)
    ELSE IF abbrev_matches(src_info) THEN abbrev_rule(original, translation, src_info)
    ELSE default_rule(original, translation, src_info)

\* lines 198-261: the delimited form
delimited_form(clean, src_info) ==
    LET translation == delimited_translation(clean)
    IN IF translation # <<>> /\ Slice(translation, 1, 2) # <<"-", "-">>
       THEN AssertionError
       ELSE resolve_origin(delimited_original(clean),
                           Slice(translation, 3, Len(translation)),
                           src_info)

\* lines 113-173: the text after the substitutions (normal), the text
\* without its source information (clean) and the source information
entry_locals(text) ==
    LET normal == substitutions(text)
        e == extract_src_info(normal)
    IN [normal |-> normal, clean |-> e.clean, found |-> e.found,
        src_info |-> e.src_info]

\* lines 175-261: the result, from the local variables
entry_result(l) ==
    IF greek_split(l.clean) # <<0, 0>>
    THEN greek_form(l.clean, l.found, l.src_info)
    ELSE delimited_form(l.clean, l.src_info)

\* lines 112-261
process_entry(text) == entry_result(entry_locals(text))

\* the text left in the original slot when there is no translation
format_output_unmoved(original, translation, src_origin, src_info) ==
    <<src_origin, original, translation,
      IF Truthy(src_info) THEN src_info ELSE None>>

\* lines 94-101
format_output(original, translation, src_origin, src_info) ==
    LET info == IF Truthy(src_info) THEN src_info ELSE None
    IN IF Truthy(translation)
       THEN <<src_origin, original, translation, info>>
       ELSE <<src_origin, None, original, info>>

----------------------------------------------------------------------------
(* Inputs                                                                  *)

MaxLines == 5
MaxAttr == 2

\* the lines a file is made of: a translated entry, an entry whose
\* translation lacks the em-dash, an English entry, and the blank line
FileLines == {<<"=", "a", "=", "-", "-", "b", " ", "_", "P", "r", ".", "_", "\n">>,
              <<"=", "a", "=", "b", "\n">>,
              <<"=", "c", "=", " ", "_", "J", "o", "h", "n", "s", "o", "n", ".", "_", "\n">>,
              <<"\n">>}

Files == UNION {[1..n -> FileLines] : n \in 0..MaxLines}

\* the parts an entry text is put together from
Bodies == {<<>>, <<"=", "a", ".", "=">>, <<"=", "a", "=", " ", "x", " ", "=", "b", "1", ".", "=">>, <<"[", "G", "r", "e", "e", "k", ":", " ", "g", "]">>, <<"a">>}
Translations == {<<>>, <<"-", "-", "b", ".">>, <<"b", ".">>, <<"-", "-", "b", ",", " ", "_", "i", ".", "e", ".", "_", " ", "c", ".">>}
AttrPieces == {<<"J", "o", "h", "n", "s", "o", "n", ".">>, <<"L", ".">>, <<"F", "r", ".">>, <<" ", "B", "a", "c", "o", "n", ".">>, <<" ", "t", "o", " ", "x">>, <<"G", "r", ".">>, <<"H", "a", "m", ".">>, <<"P", "r", ".">>}
Tails == {<<>>, <<" ", "z">>, <<"\n">>}

RECURSIVE Concat(_)
Concat(parts) == IF parts = <<>> THEN <<>> ELSE parts[1] \o Concat(Tail(parts))

Attributions ==
    {<<>>} \cup {<<" ", "_">> \o Concat(ps) \o <<"_">> :
                    ps \in UNION {[1..n -> AttrPieces] : n \in 0..MaxAttr}}

\* the cleaned text the specification gives as its example
ExampleText == <<"S", "o", "m", "e", " ", "t", "e", "x", "t", "=", " ", "V", "e", "r", "a", " ", "c", "a", "u", "s", "a", ".", "=", "-", "-", "T", "r", "u", "e", " ", "c", "a", "u", "s", "e", ".">>

Entries ==
    {b \o tr \o a \o tl :
        b \in Bodies, tr \in Translations, a \in Attributions, tl \in Tails}
    \cup {ExampleText}

TextArgs == {None, <<>>, <<"a">>, <<"-", "-", "b">>}
OriginArgs == {"UNK", "Latin", "Greek", "English"}
InfoArgs == {None, <<>>, <<"H", "o", "r">>, <<"P", "r", "o", "v", "e", "r", "b">>}

NoCall == [kind |-> "none", original |-> None, translation |-> None,
           src_origin |-> "", src_info |-> None]
NoOutput == <<"", None, None, None>>
NoLocals == [normal |-> <<>>, clean |-> <<>>, found |-> FALSE, src_info |-> <<>>]

----------------------------------------------------------------------------
(* process_Wood, lines 264-285                                             *)

Init ==
    /\ file \in Files
    /\ pos = 0
    /\ lst = <<>>
    /\ cleaned = <<>>
    /\ pc = "loop"
    /\ printed = 0
    /\ s = <<>>
    /\ res = NoCall
    /\ locals = NoLocals
    /\ out = NoOutput
    /\ phase = "file"

\* lines 269-271: a line that is not blank joins the entry
ReadLine ==
    /\ pc = "loop"
    /\ pos < Len(file)
    /\ file[pos + 1] # <<"\n">>
    /\ lst' = Append(lst, file[pos + 1])
    /\ pos' = pos + 1
    /\ UNCHANGED <<file, cleaned, pc, printed, s, res, locals, out, phase>>

\* lines 272-275 and 280: a blank line, the entry parses
EntryParsed ==
    /\ pc = "loop"
    /\ pos < Len(file)
    /\ file[pos + 1] = <<"\n">>
    /\ s' = Concat(lst)
    /\ locals' = entry_locals(s')
    /\ res' = entry_result(locals')
    /\ res'.kind = "return"
    /\ out' = format_output(res'.original, res'.translation,
                            res'.src_origin, res'.src_info)
    /\ cleaned' = Append(cleaned, out')
    /\ lst' = <<>>
    /\ pos' = pos + 1
    /\ UNCHANGED <<file, pc, printed, phase>>

\* lines 272-280: a blank line, the assert of process_entry fails and is
\* caught.  No subscript of process_entry can fail (each is guarded by the
\* truth of the list it reads), so the IndexError handler is never entered.
EntryFailed ==
    /\ pc = "loop"
    /\ pos < Len(file)
    /\ file[pos + 1] = <<"\n">>
    /\ s' = Concat(lst)
    /\ locals' = entry_locals(s')
    /\ res' = entry_result(locals')
    /\ res'.kind = "AssertionError"
    /\ printed' = printed + 1
    /\ lst' = <<>>
    /\ pos' = pos + 1
    /\ UNCHANGED <<file, cleaned, pc, out, phase>>

\* the for loop is exhausted
EndOfFile ==
    /\ pc = "loop"
    /\ pos = Len(file)
    /\ pc' = "last"
    /\ UNCHANGED <<file, pos, lst, cleaned, printed, s, res, locals, out, phase>>

\* lines 282-285: the last entry parses and the list is returned
LastEntryParsed ==
    /\ pc = "last"
    /\ s' = Concat(lst)
    /\ locals' = entry_locals(s')
    /\ res' = entry_result(locals')
    /\ res'.kind = "return"
    /\ out' = format_output(res'.original, res'.translation,
                            res'.src_origin, res'.src_info)
    /\ cleaned' = Append(cleaned, out')
    /\ pc' = "done"
    /\ UNCHANGED <<file, pos, lst, printed, phase>>

\* lines 282-284: the assert fails outside any try statement and the
\* exception leaves process_Wood
LastEntryRaised ==
    /\ pc = "last"
    /\ s' = Concat(lst)
    /\ locals' = entry_locals(s')
    /\ res' = entry_result(locals')
    /\ res'.kind = "AssertionError"
    /\ pc' = "aborted"
    /\ UNCHANGED <<file, pos, lst, cleaned, printed, out, phase>>

Next ==
    \/ ReadLine
    \/ EntryParsed
    \/ EntryFailed
    \/ EndOfFile
    \/ LastEntryParsed
    \/ LastEntryRaised

Spec == Init /\ [][Next]_vars

----------------------------------------------------------------------------
(* One call of process_entry followed by format_output                     *)

InitEntry ==
    /\ s \in Entries
    /\ res = NoCall
    /\ locals = NoLocals
    /\ out = NoOutput
    /\ phase = "text"
    /\ file = <<>>
    /\ pos = 0
    /\ lst = <<>>
    /\ cleaned = <<>>
    /\ pc = "none"
    /\ printed = 0

CallProcessEntry ==
    /\ phase = "text"
    /\ locals' = entry_locals(s)
    /\ res' = entry_result(locals')
    /\ phase' = "parsed"
    /\ UNCHANGED <<file, pos, lst, cleaned, pc, printed, s, out>>

CallFormatOutput ==
    /\ phase = "parsed"
    /\ res.kind = "return"
    /\ out' = format_output(res.original, res.translation, res.src_origin, res.src_info)
    /\ phase' = "formatted"
    /\ UNCHANGED <<file, pos, lst, cleaned, pc, printed, s, res, locals>>

NextEntry ==
    \/ CallProcessEntry
    \/ CallFormatOutput

SpecEntry == InitEntry /\ [][NextEntry]_vars

----------------------------------------------------------------------------
(* One call of format_output on arbitrary arguments                        *)

InitFormat ==
    /\ res \in {Returned(o, tr, g, i) :
                   o \in TextArgs, tr \in TextArgs, g \in OriginArgs, i \in InfoArgs}
    /\ locals = NoLocals
    /\ out = NoOutput
    /\ phase = "args"
    /\ s = <<>>
    /\ file = <<>>
    /\ pos = 0
    /\ lst = <<>>
    /\ cleaned = <<>>
    /\ pc = "none"
    /\ printed = 0

ApplyFormatOutput ==
    /\ phase = "args"
    /\ out' = format_output(res.original, res.translation, res.src_origin, res.src_info)
    /\ phase' = "formatted"
    /\ UNCHANGED <<file, pos, lst, cleaned, pc, printed, s, res, locals>>

NextFormat == ApplyFormatOutput

SpecFormat == InitFormat /\ [][NextFormat]_vars

----------------------------------------------------------------------------
(* The last call of process_entry                                          *)

\* the text after the substitutions
Normal == locals.normal

\* the text after the source information was taken out of it
Clean == locals.clean

\* the tokens of the source information when the origin is resolved
SrcTokens == locals.src_info

\* the entry of the call has the Greek form
GreekForm == greek_split(Clean) # <<0, 0>>

----------------------------------------------------------------------------
(* Claims about process_Wood, checked under Spec                           *)

\* C1: whatever the position of a malformed entry, process_Wood catches its
\* parse error, skips it and returns normally: no run is aborted by an
\* exception of process_entry.
C1_NeverAborts == pc # "aborted"

RECURSIVE Blocks(_, _, _)
\* the blocks of lines that the blank lines of f separate, from line i on
Blocks(f, i, cur) ==
    IF i > Len(f) THEN <<cur>>
    ELSE IF f[i] = <<"\n">> THEN <<cur>> \o Blocks(f, i + 1, <<>>)
    ELSE Blocks(f, i + 1, Append(cur, f[i]))

RECURSIVE RecordsOf(_)
\* one record for each block that has lines and parses, in order
RecordsOf(blocks) ==
    IF blocks = <<>> THEN <<>>
    ELSE LET r == process_entry(Concat(blocks[1]))
         IN IF blocks[1] # <<>> /\ r.kind = "return"
            THEN <<format_output(r.original, r.translation, r.src_origin, r.src_info)>>
                     \o RecordsOf(Tail(blocks))
            ELSE RecordsOf(Tail(blocks))

\* C2: the list process_Wood returns holds exactly one record for each
\* entry of the input that parses, in input order, and nothing else: no
\* record for an empty block.
C2_ExactlyTheEntries ==
    pc = "done" => cleaned = RecordsOf(Blocks(file, 1, <<>>))

\* C3: every record process_Wood emits has a non-empty text in its
\* original slot or in its translation slot.
C3_TextPresent ==
    \A k \in 1..Len(cleaned) :
        ~(cleaned[k][2] = None /\ cleaned[k][3] \in {None, <<>>})

\* the text the last call took the translation from: the rest of the
\* Greek form, the last fragment of the delimited form
TranslationSource ==
    IF GreekForm
    THEN Replace(Clean, Slice(Clean, greek_split(Clean)[1], greek_split(Clean)[2]), <<>>)
    ELSE delimited_translation(Clean)

\* the translation must begin with the em-dash and does not: always in
\* the Greek form, when it is not empty in the delimited form
LacksEmDash ==
    /\ Slice(TranslationSource, 1, 2) # <<"-", "-">>
    /\ GreekForm \/ TranslationSource # <<>>

\* C5: an entry whose translation does not begin with "--" raises in
\* process_entry and is left out without ending the run; a returned
\* translation was taken from text beginning with "--" and has it stripped.
C5_EmDashEnforced ==
    res.kind # "none" =>
        /\ LacksEmDash => res.kind = "AssertionError" /\ pc # "aborted"
        /\ res.kind = "return" /\ res.translation # <<>> =>
              /\ Slice(TranslationSource, 1, 2) = <<"-", "-">>
              /\ res.translation =
                     rstrip(Slice(TranslationSource, 3, Len(TranslationSource)))

----------------------------------------------------------------------------
(* Claims about format_output, checked under SpecFormat                    *)

\* C4: format_output keeps the two texts in their slots when the
\* translation is present (not None, not empty) and otherwise returns
\* (origin, None, original, sourceInfo); the origin is passed through and
\* an empty sourceInfo comes out as None.
C4_FormatOutput ==
    phase = "formatted" =>
        /\ out[1] = res.src_origin
        /\ res.translation \notin {None, <<>>} =>
              out[2] = res.original /\ out[3] = res.translation
        /\ res.translation \in {None, <<>>} =>
              out[2] = None /\ out[3] = res.original
        /\ out[4] = IF res.src_info \in {None, <<>>} THEN None ELSE res.src_info

C4_Witness ==
    /\ phase = "formatted"
    /\ res.translation = <<>>
    /\ res.original = <<"a">>
    /\ res.src_info = <<>>
    /\ out = <<res.src_origin, None, <<"a">>, None>>

----------------------------------------------------------------------------
(* Claims about process_entry, checked under SpecEntry                     *)

Underscores(t) == {i \in 1..Len(t) : t[i] = "_"}

\* the call returned and the entry has the delimited form
DelimitedReturn ==
    phase # "text" /\ res.kind = "return" /\ ~GreekForm

\* C6 as claimed: without a _..._ span sourceInfo is None and a translated
\* entry has origin "Latin", in the Greek form as in the delimited form.
C6_Original ==
    (phase # "text" /\ res.kind = "return" /\ Cardinality(Underscores(Normal)) < 2) =>
        /\ res.src_info = None
        /\ res.translation # <<>> => res.src_origin = "Latin"

\* C6 as amended: without a _..._ span sourceInfo is None; a translated entry
\* of the delimited form has origin "Latin" and one of the Greek form has
\* origin "Greek".
C6_AbsentAttribution ==
    (phase # "text" /\ res.kind = "return" /\ Cardinality(Underscores(Normal)) < 2) =>
        /\ res.src_info = None
        /\ phase = "formatted" => out[4] = None
        /\ res.translation # <<>> =>
              res.src_origin = IF GreekForm THEN "Greek" ELSE "Latin"

C6_Witness ==
    /\ phase = "formatted"
    /\ Cardinality(Underscores(Normal)) < 2
    /\ ~GreekForm
    /\ res.translation = <<"b", ".">>
    /\ res.src_origin = "Latin"
    /\ res.src_info = None

RECURSIVE EvenFragments(_, _, _, _, _)
\* reading t from position i: cur is the fragment being read, n the number
\* of non-empty fragments closed so far, acc the even-numbered ones joined
\* by a space
EvenFragments(t, i, cur, n, acc) ==
    LET closed == i > Len(t) \/ t[i] = "="
        acc2 == IF cur = <<>> \/ n % 2 = 1 THEN acc
                ELSE IF n = 0 THEN cur
                ELSE acc \o <<" ">> \o cur
        n2 == IF cur = <<>> THEN n ELSE n + 1
    IN IF i > Len(t) THEN acc2
       ELSE IF closed THEN EvenFragments(t, i + 1, <<>>, n2, acc2)
       ELSE EvenFragments(t, i + 1, Append(cur, t[i]), n, acc)

\* what follows the last "=" of t, all of t when it has none
AfterLastEquals(t) ==
    LET eqs == {i \in 1..Len(t) : t[i] = "="}
    IN IF eqs = {} THEN t
       ELSE Slice(t, 1 + (CHOOSE i \in eqs : \A k \in eqs : k <= i), Len(t))

\* the rule of C7 for the delimited form: the original is the even-indexed
\* non-empty fragments joined by a space, the translation the last fragment
\* without its ", _i.e._ ..." clarification and its leading "--", both
\* trailing-trimmed
C7_Rule ==
    DelimitedReturn =>
        /\ res.original = rstrip(EvenFragments(Clean, 1, <<>>, 0, <<>>))
        /\ LET last == rstrip(SubIe(AfterLastEquals(Clean)))
           IN /\ last # <<>> => Slice(last, 1, 2) = <<"-", "-">>
              /\ res.translation = Slice(last, 3, Len(last))

C8_AuthorFirst ==
    DelimitedReturn =>
        /\ (SrcTokens # <<>> /\ refactor_src_info(SrcTokens) \in DOMAIN auth_lang_map) =>
              /\ res.src_origin = auth_lang_map[refactor_src_info(SrcTokens)]
              /\ res.src_info =
                    IF refactor_src_info(SrcTokens) \in DOMAIN auth_abbrev_map
                    THEN auth_abbrev_map[refactor_src_info(SrcTokens)]
                    ELSE refactor_src_info(SrcTokens)
        /\ SrcTokens = <<<<"J", "o", "h", "n", "s", "o", "n">>>> =>
              res.src_origin = "English" /\ res.src_info = <<"J", "o", "h", "n", "s", "o", "n">>
        /\ SrcTokens = <<<<"L">>, <<"B", "a", "c", "o", "n">>>> =>
              res.src_origin = "English" /\ res.src_info = <<"L", ".", " ", "B", "a", "c", "o", "n">>
        /\ SrcTokens = <<<<"F", "r">>, <<"B", "a", "c", "o", "n">>>> =>
              res.src_origin = "English" /\ res.src_info = <<"B", "a", "c", "o", "n">>

C8_Witness ==
    /\ DelimitedReturn
    /\ SrcTokens = <<<<"L">>, <<"B", "a", "c", "o", "n">>>>
    /\ res.src_origin = "English"
    /\ res.src_info = <<"L", ".", " ", "B", "a", "c", "o", "n">>

\* one of the rules (b)-(d) matches the tokens
RuleMatches(tokens) ==
    /\ tokens # <<>>
    /\ \/ refactor_src_info(tokens) \in DOMAIN auth_lang_map
       \/ tokens[1] \in {<<"L">>, <<"L", "a", "w">>}
       \/ tokens[1] \in DOMAIN origin_abbrev_map

\* C9 as claimed: a delimited-form entry whose translation is empty has the
\* origin "UNK" whatever its tokens are, and its tokens are neither
\* replaced nor shortened by the rules (b)-(d).
C9_Original ==
    (DelimitedReturn /\ res.translation = <<>>) =>
        /\ res.src_origin = "UNK"
        /\ res.src_info = IF SrcTokens = <<>> THEN None
                          ELSE refactor_src_info(SrcTokens)

\* C9 as amended: the rules (b)-(d) are applied whether or not there is a
\* translation; only the "Latin" default needs one.  A delimited-form
\* entry whose translation is empty has the origin "UNK" exactly when none
\* of the rules (b)-(d) matches its tokens, and then its tokens are neither
\* replaced nor shortened.
C9_UntranslatedOrigin ==
    (DelimitedReturn /\ res.translation = <<>>) =>
        /\ res.src_origin = "UNK" <=> ~RuleMatches(SrcTokens)
        /\ ~RuleMatches(SrcTokens) =>
              res.src_info = IF SrcTokens = <<>> THEN None
                             ELSE refactor_src_info(SrcTokens)

C9_Witness ==
    /\ DelimitedReturn
    /\ res.translation = <<>>
    /\ res.original = <<"a", ".">>
    /\ SrcTokens = <<<<"J", "o", "h", "n", "s", "o", "n">>>>
    /\ res.src_origin = "English"

\* the lower-case letter of a capital that a trigger word can hold
Lower(c) ==
    CASE c = "T" -> "t" [] c = "O" -> "o" [] c = "A" -> "a" [] c = "N" -> "n"
      [] c = "B" -> "b" [] c = "Y" -> "y" [] c = "I" -> "i" [] c = "S" -> "s"
      [] c = "D" -> "d" [] c = "U" -> "u" [] c = "P" -> "p" [] OTHER -> c

TriggerWords == {<<"t", "o">>, <<"a", "t">>, <<"o", "n">>, <<"b", "y">>, <<"i", "n">>, <<"s", "a", "i", "d">>, <<"u", "p", "o", "n">>}

\* t cut at the first whole-word trigger word, in any letter case
CutAtTrigger(t) ==
    LET hits == {i \in 1..Len(t) : \E w \in TriggerWords :
                    /\ i + Len(w) - 1 <= Len(t)
                    /\ \A k \in 1..Len(w) : Lower(t[i + k - 1]) = w[k]
                    /\ Boundary(t, i)
                    /\ Boundary(t, i + Len(w))}
    IN IF hits = {} THEN t
       ELSE Slice(t, 1, (CHOOSE i \in hits : \A k \in hits : i <= k) - 1)

\* C10: of a text with exactly one _..._ span, exactly the span is removed
\* (the text before and after it is kept, trailing-trimmed) and the tokens
\* are the content of the span cut at the first trigger word, split on ".",
\* trimmed, the empty ones dropped.
C10_OneSpan ==
    (phase # "text" /\ Cardinality(Underscores(Normal)) = 2) =>
        LET first == CHOOSE i \in Underscores(Normal) :
                        \A k \in Underscores(Normal) : i <= k
            last == CHOOSE i \in Underscores(Normal) :
                        \A k \in Underscores(Normal) : k <= i
        IN /\ clean_text(Normal) =
                 rstrip(Slice(Normal, 1, first - 1)
                            \o Slice(Normal, last + 1, Len(Normal)))
           /\ src_info_tokens(Normal) =
                 Tokens(CutAtTrigger(Slice(Normal, first + 1, last - 1)))

====
